---- MODULE Spec2Model ----
(***************************************************************************)
(* kuzushiji.classify.level2_features: the pass that turns the aligned     *)
(* "detailed" prediction tables of several first-stage models into the     *)
(* (box, candidate label) table of the second-stage classifier.            *)
(*                                                                         *)
(* A table is a sequence of rows (itertuples order); row k of the sequence *)
(* has Index k-1.  A decoded prediction (get_pred_dict) is a sequence of   *)
(* <<label, score>> pairs with distinct labels, in the dict's encounter    *)
(* order.  Scores are integers (hundredths).  A ratio is a pair            *)
(* <<numerator, denominator>> in lowest terms.                             *)
(***************************************************************************)
EXTENDS Integers, Sequences, FiniteSets, TLC

VARIABLES
    pc,                 \* position of main: "start", "read", "loop", "done", "error"
    files,              \* the tables at the paths args.detailed
    top_k_arg,          \* args.top_k
    outfile,            \* what is at the path args.output
    dfs,                \* the tables main has read (<<>> before line 24)
    boxes_by_image_id,  \* the per-image box arrays
    i,                  \* number of aligned rows the loop has consumed
    output,             \* the list of emitted rows
    features,           \* the loop's local dict of per-model columns
    top_k_classes,      \* the loop's local set
    true,               \* the loop's local, after lines 47-49
    run,                \* which run of the program this is
    prev                \* the table the previous run wrote

vars == <<pc, files, top_k_arg, outfile, dfs, boxes_by_image_id, i, output,
          features, top_k_classes, true, run, prev>>

-----------------------------------------------------------------------------
(* Bounds of the model *)

MaxModels == 2
MaxBoxes == 2
MaxPreds == 2
MaxTopK == 2
MaxEntries == 2
MaxPeers == 2
MaxCoord == 2

Min(a, b) == IF a <= b THEN a ELSE b
Max(a, b) == IF a >= b THEN a ELSE b

-----------------------------------------------------------------------------
(* Label vocabulary *)

SEG_FP == "seg_fp"

\* get_encoded_classes(): label -> code, the sentinel among the labels
EncodedClasses ==
    [cls \in {"bird", "cat", "dog", SEG_FP} |->
        CASE cls = "bird" -> 0 [] cls = "cat" -> 1 [] cls = "dog" -> 2 [] OTHER -> 3]

SentinelCode == 0 - 1

\* classes, after classes[SEG_FP] = -1
classes == [cls \in DOMAIN EncodedClasses |->
              IF cls = SEG_FP THEN SentinelCode ELSE EncodedClasses[cls]]

\* get_pred_dict(item, cls_by_idx): the decoded mapping of one row
get_pred_dict(item) == item.preds

-----------------------------------------------------------------------------
(* sorted(preds.items(), key=score, reverse=True)[:top_k] *)

\* number of leading entries of s whose score is at least sc
RECURSIVE CountGE(_, _)
CountGE(s, sc) ==
    IF s = <<>> THEN 0
    ELSE IF Head(s)[2] >= sc THEN 1 + CountGE(Tail(s), sc) ELSE 0

\* an unstable sort: e placed ahead of the entries that tie with it
InsertUnstable(s, e) ==
    LET k == CountGE(s, e[2] + 1)
    IN  SubSeq(s, 1, k) \o <<e>> \o SubSeq(s, k + 1, Len(s))

\* e placed behind every entry of the sorted s whose score is >= its own
InsertStable(s, e) ==
    LET k == CountGE(s, e[2])
    IN  SubSeq(s, 1, k) \o <<e>> \o SubSeq(s, k + 1, Len(s))

RECURSIVE SortedDesc(_)
SortedDesc(p) ==
    IF p = <<>> THEN <<>>
    ELSE InsertStable(SortedDesc(SubSeq(p, 1, Len(p) - 1)), p[Len(p)])

\* the slice s[:k]
SliceTo(s, k) ==
    IF k >= 0 THEN SubSeq(s, 1, Min(k, Len(s)))
    ELSE SubSeq(s, 1, Max(Len(s) + k, 0))

TopK(preds, k) == SliceTo(SortedDesc(preds), k)

\* the column names f'top_{r}_cls_m{j}' and f'top_{r}_score_m{j}'
ClsCol(r, j) == <<"cls", r, j>>
ScoreCol(r, j) == <<"score", r, j>>

\* the two features.update calls for model j (0-based)
ModelColumns(top, j) ==
    [c \in {ClsCol(r - 1, j) : r \in 1..Len(top)}
            \cup {ScoreCol(r - 1, j) : r \in 1..Len(top)} |->
        IF c[1] = "cls" THEN classes[top[c[2] + 1][1]] ELSE top[c[2] + 1][2]]

\* d.update(e)
Update(d, e) == [c \in DOMAIN d \cup DOMAIN e |-> IF c \in DOMAIN e THEN e[c] ELSE d[c]]

EmptyDict == [c \in {} |-> 0]

\* the inner loop over the models of one aligned row, from model j on
RECURSIVE FuseFrom(_, _, _, _)
FuseFrom(items, j, k, acc) ==
    IF j > Len(items) THEN acc
    ELSE LET top == TopK(get_pred_dict(items[j]), k)
         IN  FuseFrom(items, j + 1, k,
                 [features |-> Update(acc.features, ModelColumns(top, j - 1)),
                  top_k_classes |-> acc.top_k_classes
                                      \cup {top[r][1] : r \in 1..Len(top)}])

\* what the body starts an iteration with: features = {'item': i}, an empty set
FreshRow == [features |-> EmptyDict, top_k_classes |-> {}]

Fuse(items, k) == FuseFrom(items, 1, k, FreshRow)

\* the true label never remapped
ResolveKeep(t, union) == t

\* lines 47-49
Resolve(t, union) == IF \E cls \in union : t = cls THEN t ELSE SEG_FP

\* the candidates without the two added labels
CandidatesUnionOnly(union, t) == union

\* the candidates without the sentinel
CandidatesNoSentinel(union, t) == union \cup {t}

\* the set the emission loop iterates
Candidates(union, t) == union \cup {t, SEG_FP}

-----------------------------------------------------------------------------
(* get_boxes_by_image_id and get_max_iou *)

\* df.itertuples(): the rows in order, each with its Index
itertuples(df) == [k \in 1..Len(df) |-> [Index |-> k - 1] @@ df[k]]

BoxEntry(item) == <<item.x, item.y, item.x + item.w, item.y + item.h, item.Index>>

\* the entries of one image, in row order
RECURSIVE BoxesOf(_, _)
BoxesOf(rows, image_id) ==
    IF rows = <<>> THEN <<>>
    ELSE (IF Head(rows).image_id = image_id THEN <<BoxEntry(Head(rows))>> ELSE <<>>)
            \o BoxesOf(Tail(rows), image_id)

get_boxes_by_image_id(df) ==
    [image_id \in {df[k].image_id : k \in 1..Len(df)} |->
        BoxesOf(itertuples(df), image_id)]

\* the box's own entry kept
ExcludeSelfKeep(item, boxes) == boxes

\* boxes[boxes[:, 4] != item.Index]
ExcludeSelf(item, boxes) == SelectSeq(boxes, LAMBDA b : b[5] # item.Index)

RECURSIVE Gcd(_, _)
Gcd(a, b) == IF b = 0 THEN a ELSE Gcd(b, a % b)

Ratio(n, d) == LET g == Gcd(n, d) IN <<n \div g, d \div g>>

RatioLE(p, q) == p[1] * q[2] <= q[1] * p[2]

\* the intersection over the area of the queried box, not of the other one
OverlapOwnArea(item, b) ==
    LET area == (item.w + 1) * (item.h + 1)
        w == Max(0, Min(item.x + item.w, b[3]) - Max(item.x, b[1]) + 1)
        h == Max(0, Min(item.y + item.h, b[4]) - Max(item.y, b[2]) + 1)
    IN  Ratio(w * h, area)

\* (w * h) / area for one other box b
Overlap(item, b) ==
    LET area == (b[3] - b[1] + 1) * (b[4] - b[2] + 1)
        xx1 == Max(item.x, b[1])
        yy1 == Max(item.y, b[2])
        xx2 == Min(item.x + item.w, b[3])
        yy2 == Min(item.y + item.h, b[4])
        w == Max(0, xx2 - xx1 + 1)
        h == Max(0, yy2 - yy1 + 1)
    IN  Ratio(w * h, area)

RECURSIVE MaxRatio(_)
MaxRatio(s) ==
    IF Len(s) = 1 THEN s[1]
    ELSE LET m == MaxRatio(Tail(s)) IN IF RatioLE(m, s[1]) THEN s[1] ELSE m

get_max_iou(item, boxes) ==
    LET others == ExcludeSelf(item, boxes)
    IN  IF Len(others) = 0 THEN <<0, 1>>
        ELSE MaxRatio([n \in 1..Len(others) |-> Overlap(item, others[n])])

-----------------------------------------------------------------------------
(* main *)

\* the output path: nothing there, a file someone left there, a table main wrote
NoFile == [exists |-> FALSE, by |-> "nobody", table |-> <<>>]
OldFile == [exists |-> TRUE, by |-> "other", table |-> <<>>]
Written(table) == [exists |-> TRUE, by |-> "main", table |-> table]

\* zip(*[df.itertuples() for df in dfs]): as many tuples as the shortest table
ZipLen(tables) ==
    LET lens == {Len(tables[j]) : j \in 1..Len(tables)}
    IN  CHOOSE n \in lens : \A m \in lens : n <= m

ZipItems(tables, k) == [j \in 1..Len(tables) |-> itertuples(tables[j])[k]]

\* a list instead of a set: every label yielded twice
OrdersWithRepeats(S) ==
    {s \in [1..(2 * Cardinality(S)) -> S] :
        \A c \in S : Cardinality({a \in DOMAIN s : s[a] = c}) = 2}

\* the orders in which iterating a set of labels can yield them
Orders(S) ==
    {s \in [1..Cardinality(S) -> S] :
        \A a, b \in 1..Cardinality(S) : a # b => s[a] # s[b]}

\* dict(features, candidate_cls=classes[cls], y=true == cls)
OutputRow(n, feats, overlap, t, cls) ==
    [item |-> n, cols |-> feats, box_overlap |-> overlap,
     candidate_cls |-> classes[cls], y |-> (t = cls)]

\* pd.DataFrame(output): every row over every column, a missing value empty
DataFrame(rows) ==
    LET columns == UNION {DOMAIN rows[n].cols : n \in 1..Len(rows)}
    IN  [n \in 1..Len(rows) |->
            [rows[n] EXCEPT !.cols =
                [c \in columns |-> IF c \in DOMAIN rows[n].cols
                                   THEN {rows[n].cols[c]} ELSE {}]]]

\* lines 21-22: parser.error
OutputExists ==
    /\ pc = "start"
    /\ outfile.exists
    /\ pc' = "error"
    /\ UNCHANGED <<files, top_k_arg, outfile, dfs, boxes_by_image_id, i, output,
                   features, top_k_classes, true, run, prev>>

\* the tables read whether or not the output path exists
ReadCsvUnchecked ==
    /\ pc = "start"
    /\ dfs' = files
    /\ boxes_by_image_id' = get_boxes_by_image_id(files[1])
    /\ output' = <<>>
    /\ i' = 0
    /\ pc' = "loop"
    /\ UNCHANGED <<files, top_k_arg, outfile, features, top_k_classes, true, run, prev>>

\* lines 24-30
ReadCsv ==
    /\ pc = "start"
    /\ ~outfile.exists
    /\ dfs' = files
    /\ boxes_by_image_id' = get_boxes_by_image_id(files[1])
    /\ output' = <<>>
    /\ i' = 0
    /\ pc' = "loop"
    /\ UNCHANGED <<files, top_k_arg, outfile, features, top_k_classes, true, run, prev>>

\* lines 31-54: one iteration of the loop
ProcessRow ==
    /\ pc = "loop"
    /\ i < ZipLen(dfs)
    /\ LET items == ZipItems(dfs, i + 1)
           fused == Fuse(items, top_k_arg)
           item == items[1]
           overlap == get_max_iou(item, boxes_by_image_id[item.image_id])
           t == Resolve(item.true, fused.top_k_classes)
       IN  /\ features' = fused.features
           /\ top_k_classes' = fused.top_k_classes
           /\ true' = t
           /\ \E order \in Orders(Candidates(fused.top_k_classes, t)) :
                output' = output \o
                    [n \in 1..Len(order) |->
                        OutputRow(i, fused.features, overlap, t, order[n])]
    /\ i' = i + 1
    /\ UNCHANGED <<pc, files, top_k_arg, outfile, dfs, boxes_by_image_id, run, prev>>

\* lines 55-56
ToCsv ==
    /\ pc = "loop"
    /\ i = ZipLen(dfs)
    /\ outfile' = Written(DataFrame(output))
    /\ pc' = "done"
    /\ UNCHANGED <<files, top_k_arg, dfs, boxes_by_image_id, i, output,
                   features, top_k_classes, true, run, prev>>

\* the program started again on the same inputs, the first run's table moved
\* away from the output path or left there
Rerun ==
    /\ pc = "done"
    /\ run = 1
    /\ run' = 2
    /\ prev' = outfile.table
    /\ \E moved \in BOOLEAN : outfile' = (IF moved THEN NoFile ELSE OldFile)
    /\ pc' = "start"
    /\ dfs' = <<>>
    /\ boxes_by_image_id' = EmptyDict
    /\ i' = 0
    /\ output' = <<>>
    /\ features' = EmptyDict
    /\ top_k_classes' = {}
    /\ true' = SEG_FP
    /\ UNCHANGED <<files, top_k_arg>>

-----------------------------------------------------------------------------
(* Inputs *)

Row(box, t, preds) ==
    [image_id |-> box.image_id, x |-> box.x, y |-> box.y, w |-> box.w, h |-> box.h,
     true |-> t, preds |-> preds]

Box(image_id, x, y, w, h) == [image_id |-> image_id, x |-> x, y |-> y, w |-> w, h |-> h]

DefaultTopK == 3

Start(inp) ==
    /\ pc = "start"
    /\ files = inp.files
    /\ top_k_arg = inp.top_k
    /\ outfile = (IF inp.exists THEN OldFile ELSE NoFile)
    /\ dfs = <<>>
    /\ boxes_by_image_id = EmptyDict
    /\ i = 0
    /\ output = <<>>
    /\ features = EmptyDict
    /\ top_k_classes = {}
    /\ true = SEG_FP
    /\ run = 1
    /\ prev = <<>>

PredLabels == {"cat", "dog", SEG_FP}
Scores == {1, 2}
Trues == {"cat", "bird", SEG_FP}

\* the decoded mappings of n labels
PredDicts(n) ==
    {p \in [1..n -> PredLabels \X Scores] :
        \A a, b \in 1..n : a # b => p[a][1] # p[b][1]}

\* the k-tuples of decoded mappings holding at most b entries together
RECURSIVE PredTuples(_, _)
PredTuples(k, b) ==
    IF k = 0 THEN {<<>>}
    ELSE UNION {{<<p>> \o rest : p \in PredDicts(n), rest \in PredTuples(k - 1, b - n)} :
                    n \in 0..Min(MaxPreds, b)}

OneBox == Box("a", 0, 0, 1, 1)

\* one aligned row under 1..MaxModels models, every decoded mapping within
\* the bounds
InitRow ==
    \E M \in 1..MaxModels : \E cells \in PredTuples(M, MaxEntries) :
    \E t \in Trues : \E k \in 0..MaxTopK :
        Start([files |-> [j \in 1..M |-> <<Row(OneBox, t, cells[j])>>],
               top_k |-> k, exists |-> FALSE])

\* tables of 0..MaxBoxes rows each, of equal length or not, and an output path
\* that exists or not; row k is the box k-1 pixels along the same image
ShapeBox(k) == Box("a", k - 1, 0, 1, 1)
ShapeTrues == {"cat", "bird"}
ShapePreds == {<<>>, <<(<<"cat", 1>>)>>}
OtherPreds == <<(<<SEG_FP, 1>>)>>

InitShape ==
    \E M \in 1..MaxModels : \E lens \in [1..M -> 0..MaxBoxes] :
    \E ts \in [1..lens[1] -> ShapeTrues] : \E ps \in [1..lens[1] -> ShapePreds] :
    \E k \in 0..MaxTopK : \E e \in BOOLEAN :
        Start([files |-> [j \in 1..M |->
                    [n \in 1..lens[j] |->
                        IF j = 1 THEN Row(ShapeBox(n), ts[n], ps[n])
                        ELSE Row(ShapeBox(n), "cat", OtherPreds)]],
               top_k |-> k, exists |-> e])

\* the two models of the scenario: A scores cat .90, dog .05, bird .05 and
\* B scores dog .80, cat .10, bird .10; top_k = 2; the true label cat or bird
ScenarioA == <<(<<"cat", 90>>), (<<"dog", 5>>), (<<"bird", 5>>)>>
ScenarioB == <<(<<"dog", 80>>), (<<"cat", 10>>), (<<"bird", 10>>)>>
InitScenario ==
    \E t \in {"cat", "bird"} :
        Start([files |-> <<(<<Row(OneBox, t, ScenarioA)>>), (<<Row(OneBox, t, ScenarioB)>>)>>,
               top_k |-> 2, exists |-> FALSE])

Init == InitRow \/ InitShape \/ InitScenario

\* one table of boxes on two images: the first two boxes anywhere within the
\* bounds, further ones among FarBoxes; nothing decoded
GeoBoxes ==
    {Box(im, x, y, w, h) : im \in {"a", "b"}, x \in 0..MaxCoord, y \in 0..MaxCoord,
                           w \in 0..1, h \in 0..1}
FarBoxes == {Box("a", 0, 0, 0, 0), Box("a", 1, 1, 1, 1)}

InitIoU ==
    \/ \E n \in 1..(MaxPeers + 1) : \E bs \in [1..Min(n, 2) -> GeoBoxes] :
       \E fs \in [3..n -> FarBoxes] :
          Start([files |-> <<[k \in 1..n |->
                               Row(IF k <= 2 THEN bs[k] ELSE fs[k], "cat", <<>>)]>>,
                 top_k |-> DefaultTopK, exists |-> FALSE])
    \/ Start([files |-> <<(<<Row(OneBox, "cat", <<>>)>>)>>,
              top_k |-> DefaultTopK, exists |-> TRUE])

\* one aligned row, the program run twice on it
InitRuns == InitRow \/ InitScenario

Next == OutputExists \/ ReadCsv \/ ProcessRow \/ ToCsv

Spec == Init /\ [][Next]_vars

SpecIoU == InitIoU /\ [][Next]_vars

SpecRuns == InitRuns /\ [][Next \/ Rerun]_vars

-----------------------------------------------------------------------------
(* What the claims speak of, stated from the inputs *)

\* the main pass has read the tables
Reading == pc \in {"loop", "done"}

\* the positions of the output rows emitted for box n
BoxRows(n) == {r \in 1..Len(output) : output[r].item = n}

\* how many entries of p go ahead of entry a when sorted by score descending,
\* ties in encounter order
RankOf(p, a) ==
    Cardinality({b \in 1..Len(p) :
                    p[b][2] > p[a][2] \/ (p[b][2] = p[a][2] /\ b < a)})

\* the decoded mapping of box n under model j (0-based both)
PredsOf(n, j) == dfs[j + 1][n + 1].preds

\* the labels of model j's top_k for box n
TopLabels(n, j) ==
    {PredsOf(n, j)[a][1] : a \in {b \in 1..Len(PredsOf(n, j)) :
                                    RankOf(PredsOf(n, j), b) < top_k_arg}}

UnionOfTopK(n) == UNION {TopLabels(n, j) : j \in 0..(Len(dfs) - 1)}

TrueOf(n) == dfs[1][n + 1].true

ResolvedOf(n) == IF TrueOf(n) \in UnionOfTopK(n) THEN TrueOf(n) ELSE SEG_FP

Aligned(tables) == \A j \in 1..Len(tables) : Len(tables[j]) = Len(tables[1])

-----------------------------------------------------------------------------
(* C1 *)

\* C1: every processed box has exactly one output row with y = TRUE, and it
\* is the row whose candidate_cls is the code of the resolved true label
\* (the local `true` for the box just processed), whatever the predictions,
\* the true label and top_k.
ExactlyOnePositive ==
    Reading =>
        /\ \A n \in 0..(i - 1) :
              /\ Cardinality({r \in BoxRows(n) : output[r].y}) = 1
              /\ \A r \in BoxRows(n) :
                    output[r].y <=> (output[r].candidate_cls = classes[ResolvedOf(n)])
        /\ i > 0 =>
              \A r \in BoxRows(i - 1) :
                    output[r].y <=> (output[r].candidate_cls = classes[true])

\* a box whose true label no model ranks in its top_k, emitted with three
\* candidates or more
ExactlyOnePositiveWitness ==
    /\ Reading /\ i > 0
    /\ TrueOf(i - 1) # SEG_FP
    /\ true = SEG_FP
    /\ Cardinality(BoxRows(i - 1)) >= 3
    /\ \E r \in BoxRows(i - 1) : output[r].y

-----------------------------------------------------------------------------
(* C2 *)

ScenarioBird ==
    /\ Len(dfs) = 2 /\ Len(dfs[1]) = 1 /\ Len(dfs[2]) = 1
    /\ dfs[1][1].preds = ScenarioA /\ dfs[2][1].preds = ScenarioB
    /\ dfs[1][1].true = "bird"

\* C2: the resolved true label of a box is its true label when that label is
\* in the union of the models' top-K labels, and the sentinel otherwise; in
\* the two-model scenario with top_k = 2 and true label bird both top-2 sets
\* are {cat, dog}, the resolved label is the sentinel and only the sentinel's
\* row has y = TRUE.
LabelResolution ==
    (Reading /\ i > 0) =>
        /\ TrueOf(i - 1) \in UnionOfTopK(i - 1) => true = TrueOf(i - 1)
        /\ TrueOf(i - 1) \notin UnionOfTopK(i - 1) => true = SEG_FP
        /\ ScenarioBird =>
              /\ TopLabels(0, 0) = {"cat", "dog"}
              /\ TopLabels(0, 1) = {"cat", "dog"}
              /\ true = SEG_FP
              /\ \A r \in BoxRows(0) :
                    output[r].y <=> (output[r].candidate_cls = classes[SEG_FP])

\* the scenario, processed
LabelResolutionWitness ==
    /\ pc = "done" /\ i = 1
    /\ ScenarioBird
    /\ Cardinality(BoxRows(0)) = 3

-----------------------------------------------------------------------------
(* C3 *)

\* C3: the candidate codes of the rows of a box are exactly the codes of
\* (union of the models' top-K labels) with the resolved true label and the
\* sentinel added; the sentinel and the resolved label are always among
\* them, and no candidate is on two rows of the box.
CandidateCompleteness ==
    Reading =>
        \A n \in 0..(i - 1) :
            LET cands == {output[r].candidate_cls : r \in BoxRows(n)}
            IN  /\ cands = {classes[cls] : cls \in UnionOfTopK(n) \cup {ResolvedOf(n), SEG_FP}}
                /\ classes[SEG_FP] \in cands
                /\ classes[ResolvedOf(n)] \in cands
                /\ \A cls \in DOMAIN classes :
                      classes[cls] \in cands => cls \in UnionOfTopK(n) \cup {SEG_FP}
                /\ \A r1, r2 \in BoxRows(n) :
                      output[r1].candidate_cls = output[r2].candidate_cls => r1 = r2

\* a box no model gives the sentinel, its true label among the top-K, under
\* two models that disagree
CandidateCompletenessWitness ==
    /\ Reading /\ i > 0 /\ Len(dfs) >= 2
    /\ SEG_FP \notin UnionOfTopK(i - 1)
    /\ ResolvedOf(i - 1) # SEG_FP
    /\ TopLabels(i - 1, 0) # TopLabels(i - 1, 1)
    /\ Cardinality(BoxRows(i - 1)) = 3

-----------------------------------------------------------------------------
(* C4 *)

\* C4: with aligned tables and top_k > 0, a finished pass over N boxes and M
\* tables has emitted at least N rows and at most N * (M * top_k + 2), and
\* at every moment each processed box has one row at least.
RowCountBounds ==
    (Reading /\ Aligned(dfs) /\ top_k_arg > 0) =>
        /\ \A n \in 0..(i - 1) : BoxRows(n) # {}
        /\ Len(output) >= i
        /\ Len(output) <= i * (Len(dfs) * top_k_arg + 2)
        /\ pc = "done" =>
              /\ i = Len(dfs[1])
              /\ Len(outfile.table) = Len(output)
              /\ Len(output) >= Len(dfs[1])
              /\ Len(output) <= Len(dfs[1]) * (Len(dfs) * top_k_arg + 2)

\* a finished pass over two boxes under two tables, one box with a single
\* row and one with more
RowCountBoundsWitness ==
    /\ pc = "done" /\ Aligned(dfs) /\ top_k_arg > 0
    /\ Len(dfs) = 2 /\ Len(dfs[1]) = 2
    /\ \E n \in 0..1 : Cardinality(BoxRows(n)) = 1
    /\ \E n \in 0..1 : Cardinality(BoxRows(n)) > 1

-----------------------------------------------------------------------------
(* C10 *)

\* C10: for every processed box and every model j with n decoded labels, the
\* columns recorded for j are exactly the cls and score columns of ranks
\* 0..min(top_k, n)-1; rank r holds the code and the score of the entry that
\* r entries precede in descending score order, ties in encounter order; no
\* column of a higher rank or of another box or model is there, and in the
\* written table such a cell is empty.
TopKFusion ==
    Reading =>
        /\ \A n \in 0..(i - 1) : \A r \in BoxRows(n) : \A j \in 0..(Len(dfs) - 1) :
              LET p == PredsOf(n, j)
                  m == Min(top_k_arg, Len(p))
                  cols == output[r].cols
              IN  /\ {c \in DOMAIN cols : c[3] = j}
                        = {ClsCol(rk, j) : rk \in 0..(m - 1)}
                            \cup {ScoreCol(rk, j) : rk \in 0..(m - 1)}
                  /\ \A a \in 1..Len(p) :
                        RankOf(p, a) < m =>
                            /\ cols[ClsCol(RankOf(p, a), j)] = classes[p[a][1]]
                            /\ cols[ScoreCol(RankOf(p, a), j)] = p[a][2]
                  /\ \A c \in DOMAIN cols : c[3] < Len(dfs)
        /\ i > 0 => \A r \in BoxRows(i - 1) : output[r].cols = features
        /\ pc = "done" =>
              \A r \in 1..Len(output) : \A c \in DOMAIN outfile.table[r].cols :
                  outfile.table[r].cols[c] =
                      (IF c \in DOMAIN output[r].cols THEN {output[r].cols[c]} ELSE {})

\* a box with one model whose two best labels tie and are cut by top_k, and
\* another model with fewer labels than top_k
TopKFusionWitness ==
    /\ Reading /\ i > 0 /\ top_k_arg > 0 /\ Len(dfs) = 2
    /\ \E j \in 0..1 :
          LET p == PredsOf(i - 1, j)
          IN  /\ Len(p) > top_k_arg
              /\ \E a, b \in 1..Len(p) : a # b /\ p[a][2] = p[b][2]
                                         /\ RankOf(p, a) < top_k_arg
                                         /\ RankOf(p, b) >= top_k_arg
    /\ \E j \in 0..1 : Len(PredsOf(i - 1, j)) < top_k_arg

-----------------------------------------------------------------------------
(* C5 *)

\* C5: a run that finds the output path taken ends in the error with no
\* table read, no row processed or emitted and the file left as it was; the
\* path is written only once, from nothing, by the step that ends a full
\* pass, with the table of the whole output.
OutputExistsFatal ==
    /\ [](outfile.by = "other" =>
            /\ pc \in {"start", "error"}
            /\ dfs = <<>> /\ output = <<>> /\ i = 0
            /\ outfile = OldFile)
    /\ [][/\ (pc = "start" /\ outfile.exists) => pc' = "error"
          /\ pc = "error" => pc' = "error"
          /\ outfile' # outfile =>
                /\ outfile = NoFile
                /\ pc = "loop" /\ pc' = "done"
                /\ i = ZipLen(dfs)
                /\ outfile' = Written(DataFrame(output))]_vars

\* the error, with two tables of rows waiting to be read
OutputExistsFatalWitness ==
    /\ pc = "error"
    /\ outfile = OldFile
    /\ Len(files) = 2 /\ Len(files[1]) > 0 /\ Len(files[2]) > 0
    /\ dfs = <<>>

-----------------------------------------------------------------------------
(* C6 *)

\* C6: when the input tables differ in row count no output row is emitted
\* and no output file is written.
MisalignedIsFatal ==
    ~Aligned(files) => (output = <<>> /\ outfile.by # "main")

-----------------------------------------------------------------------------
(* C8 *)

\* C8: a second run on the same tables with the same top_k that completes
\* writes the table the first run wrote, the rows in the same order.
RunsAgree ==
    (run = 2 /\ pc = "done") => outfile.table = prev

-----------------------------------------------------------------------------
(* C7 and C9: the overlap feature, stated from the boxes of the first table *)

BoxOf(n) == dfs[1][n + 1]

\* the other rows on the image of box n
Peers(n) ==
    {k \in 0..(Len(dfs[1]) - 1) : k # n /\ BoxOf(k).image_id = BoxOf(n).image_id}

\* the pixels a box covers, its edges included
Pixels(b) == (b.x..(b.x + b.w)) \X (b.y..(b.y + b.h))

SameRatio(p, q) == p[1] * q[2] = q[1] * p[2]

\* C7: the overlap of every processed box lies in [0, 1]; it is 0 when no
\* other row shares the box's image, although the box's own entry is in the
\* image's array; and a value other than 0 is the share of some OTHER row's
\* pixels that the box covers, never the box measured against itself.
IoURange ==
    Reading =>
        \A n \in 0..(i - 1) : \A r \in BoxRows(n) :
            LET v == output[r].box_overlap
            IN  /\ \E e \in 1..Len(boxes_by_image_id[BoxOf(n).image_id]) :
                      boxes_by_image_id[BoxOf(n).image_id][e][5] = n
                /\ v[2] > 0 /\ 0 <= v[1] /\ v[1] <= v[2]
                /\ Peers(n) = {} => v = <<0, 1>>
                /\ v # <<0, 1>> =>
                      \E k \in Peers(n) :
                          SameRatio(v, <<Cardinality(Pixels(BoxOf(n)) \cap Pixels(BoxOf(k))),
                                         Cardinality(Pixels(BoxOf(k)))>>)
                /\ \A k \in Peers(n) :
                      Cardinality(Pixels(BoxOf(n)) \cap Pixels(BoxOf(k)))
                          <= Cardinality(Pixels(BoxOf(k)))

\* a finished pass with a box alone on its image and a box partly inside
\* another one
IoURangeWitness ==
    /\ pc = "done" /\ Len(dfs[1]) = 3
    /\ \E n \in 0..2 : Peers(n) = {} /\ \A r \in BoxRows(n) : output[r].box_overlap = <<0, 1>>
    /\ \E n \in 0..2 : \E r \in BoxRows(n) :
          /\ 0 < output[r].box_overlap[1]
          /\ output[r].box_overlap[1] < output[r].box_overlap[2]

\* the clamped inclusive intersection of box a with box b over b's inclusive
\* area (x2 - x1 + 1) * (y2 - y1 + 1)
AreaRatio(a, b) ==
    LET iw == Min(a.x + a.w, b.x + b.w) - Max(a.x, b.x) + 1
        ih == Min(a.y + a.h, b.y + b.h) - Max(a.y, b.y) + 1
    IN  <<(IF iw > 0 THEN iw ELSE 0) * (IF ih > 0 THEN ih ELSE 0),
          ((b.x + b.w) - b.x + 1) * ((b.y + b.h) - b.y + 1)>>

\* box a covers every pixel of box b
Contains(a, b) ==
    /\ a.x <= b.x /\ b.x + b.w <= a.x + a.w
    /\ a.y <= b.y /\ b.y + b.h <= a.y + a.h

\* C9: the overlap of a box is the largest, over the other rows of its
\* image, of intersection over the OTHER box's area; so a box that contains
\* another one has overlap 1, and of two boxes of different sizes alone on
\* an image the contained one has the smaller overlap, below 1.
IoUAsymmetric ==
    Reading =>
        \A n \in 0..(i - 1) : \A r \in BoxRows(n) :
            LET v == output[r].box_overlap
            IN  /\ Peers(n) # {} =>
                      /\ \E k \in Peers(n) : SameRatio(v, AreaRatio(BoxOf(n), BoxOf(k)))
                      /\ \A k \in Peers(n) : RatioLE(AreaRatio(BoxOf(n), BoxOf(k)), v)
                /\ \A k \in Peers(n) :
                      /\ Contains(BoxOf(n), BoxOf(k)) => v = <<1, 1>>
                      /\ (/\ Peers(n) = {k}
                          /\ Contains(BoxOf(k), BoxOf(n))
                          /\ <<BoxOf(k).w, BoxOf(k).h>> # <<BoxOf(n).w, BoxOf(n).h>>)
                            => /\ v[1] < v[2]
                               /\ SameRatio(v, <<(BoxOf(n).w + 1) * (BoxOf(n).h + 1),
                                                 (BoxOf(k).w + 1) * (BoxOf(k).h + 1)>>)

\* two boxes of different sizes alone on an image, the first containing the
\* second: overlap 1 for the first, 1/4 for the second
IoUAsymmetricWitness ==
    /\ pc = "done" /\ Len(dfs[1]) = 2
    /\ Peers(0) = {1}
    /\ Contains(BoxOf(0), BoxOf(1))
    /\ BoxOf(0).w = 1 /\ BoxOf(0).h = 1 /\ BoxOf(1).w = 0 /\ BoxOf(1).h = 0
    /\ \A r \in BoxRows(0) : output[r].box_overlap = <<1, 1>>
    /\ \A r \in BoxRows(1) : output[r].box_overlap = <<1, 4>>

====
